---- MODULE Spec2Model ----
(***************************************************************************)
(* mc: SSH connection manager (zbum/mc, main.go).                          *)
(*                                                                         *)
(* Strings are sequences of one-character strings, so that trimming,       *)
(* splitting, prefix tests and the Host regular expression are computed    *)
(* character by character as the Go code computes them.                    *)
(***************************************************************************)
EXTENDS Integers, Sequences, FiniteSets, TLC

VARIABLES
    home,         \* $HOME, as os.UserHomeDir reads it ("" = unset)
    readable,     \* whether os.Open(path) succeeds
    text,         \* the configuration file: a sequence of lines
    pos,          \* number of lines bufio.Scanner has consumed
    ppc,          \* parseSSHConfig: "open", "scan", "done"
    hosts,        \* var hosts []SSHHost
    current,      \* var current *SSHHost: <<>> is nil, <<h>> points to h
    lastComment,  \* var lastComment string
    perr,         \* the error parseSSHConfig returns ("nil" = none)
    akey,         \* an attribute key as written in the file
    avalue,       \* an attribute value as written in the file
    arecs,        \* per separator syntax: <<>>, or <<h>> once the line was applied
    fs,           \* the key files on disk: path -> state of the file
    agentState,   \* SSH_AUTH_SOCK: "unset", "dead" (dial fails) or "live"
    chost,        \* connectSSH's argument, the selected SSHHost
    cpc,          \* connectSSH: the statement the main flow is at
    keyIdx,       \* index of the default-key loop
    authMethods,  \* var authMethods []ssh.AuthMethod
    termMode,     \* the mode of the local terminal
    oldState,     \* oldState of term.MakeRaw: <<>> or <<mode>>
    defers,       \* connectSSH's deferred calls, last pushed last
    restores,     \* number of term.Restore calls made
    clientOpen,   \* the SSH client connection is open
    sessionOpen,  \* the SSH session (channel) is open
    subscribed,   \* sigwinch is registered with signal.Notify
    sigChan,      \* notifications buffered in sigwinch (capacity 1)
    gpc,          \* the resize goroutine: "none", "recv", "size", "dead"
    termSize,     \* the size of the local terminal, [w, h]
    ptyReq,       \* the PTY request sent: <<>> or <<[w, h]>>
    winChanges,   \* the window-change requests sent, each [w, h, open]
    resizes,      \* number of terminal resizes so far
    cres,         \* what connectSSH returned: "none", "nil" or the error
    priorMode,    \* the terminal's mode when connectSSH was called
    csize,        \* width, height of connectSSH: [w, h]
    gsize,        \* w, h of the resize goroutine: [w, h]
    tryIdx,       \* ssh.Dial: number of authMethods the handshake has gone past
    trail,        \* history: the session steps connectSSH has made, each [step, ok]
    sizeQuery,    \* history: connectSSH's term.GetSize call, <<>> or <<[ok, w, h]>>
    acqLog,       \* history: the credential acquisitions made, each with cpc at the time
    notes,        \* history: counts of SIGWINCH notifications and what became of them
    mpc,          \* main: the statement it is at
    exitCode,     \* the process's exit status: <<>> while it runs, then <<code>>
    uiCalls,      \* history: the length of the list of each fuzzyfinder.Find call
    uiResult,     \* idx, err of fuzzyfinder.Find: [err, idx] (err "none" before the call)
    connCalls,    \* history: number of connectSSH calls made by main
    epath,        \* expandPath's argument
    eres          \* expandPath's result: <<>> or <<path>>

parseVars == <<home, readable, text, pos, ppc, hosts, current, lastComment, perr>>

attrVars == <<akey, avalue, arecs>>

authVars == <<fs, agentState, keyIdx, authMethods, tryIdx>>

sessVars == <<termMode, oldState, defers, restores, clientOpen, sessionOpen, subscribed,
              sigChan, gpc, termSize, ptyReq, winChanges, resizes, cres, priorMode,
              csize, gsize>>

connVars == <<chost, cpc, authVars, sessVars>>

logVars == <<trail, sizeQuery, acqLog, notes>>

mainVars == <<mpc, exitCode, uiCalls, uiResult, connCalls>>

expVars == <<epath, eres>>

moreVars == <<logVars, mainVars, expVars>>

vars == <<parseVars, attrVars, connVars, moreVars>>

nonParseVars == <<attrVars, connVars, moreVars>>

nonAttrVars == <<parseVars, connVars, moreVars>>

\* nothing has been recorded yet
LogIdle ==
    /\ trail = <<>> /\ sizeQuery = <<>> /\ acqLog = <<>>
    /\ notes = [raised |-> 0, running |-> 0, merged |-> 0, failed |-> 0]

\* the variables of main, at rest
MainIdle ==
    /\ mpc = "idle" /\ exitCode = <<>> /\ uiCalls = <<>>
    /\ uiResult = [err |-> "none", idx |-> 0] /\ connCalls = 0

\* the variables of the expandPath runs, at rest
ExpIdle == epath = <<>> /\ eres = <<>>

MoreIdle == LogIdle /\ MainIdle /\ ExpIdle

----------------------------------------------------------------------------
(* strings *)

Space == {" ", "\t"}

Upper == [c \in {"H", "O", "S", "T", "P", "R", "U", "E", "N", "A", "M", "I", "D", "Y", "F", "L", "X"} |->
    CASE c = "H" -> "h" [] c = "O" -> "o" [] c = "S" -> "s" [] c = "T" -> "t"
      [] c = "P" -> "p" [] c = "R" -> "r" [] c = "U" -> "u" [] c = "E" -> "e"
      [] c = "N" -> "n" [] c = "A" -> "a" [] c = "M" -> "m" [] c = "I" -> "i"
      [] c = "D" -> "d" [] c = "Y" -> "y" [] c = "F" -> "f" [] c = "L" -> "l"
      [] c = "X" -> "x"]

\* strings.ToLower
ToLower(s) == [i \in 1..Len(s) |-> IF s[i] \in DOMAIN Upper THEN Upper[s[i]] ELSE s[i]]

RECURSIVE TrimLeft(_)
TrimLeft(s) == IF s # <<>> /\ Head(s) \in Space THEN TrimLeft(Tail(s)) ELSE s

RECURSIVE TrimRight(_)
TrimRight(s) ==
    IF s # <<>> /\ s[Len(s)] \in Space THEN TrimRight(SubSeq(s, 1, Len(s) - 1)) ELSE s

\* strings.TrimSpace
TrimSpace(s) == TrimRight(TrimLeft(s))

\* strings.HasPrefix
HasPrefix(s, p) == Len(s) >= Len(p) /\ SubSeq(s, 1, Len(p)) = p

\* strings.TrimPrefix
TrimPrefix(s, p) == IF HasPrefix(s, p) THEN SubSeq(s, Len(p) + 1, Len(s)) ELSE s

\* strings.Index for a one-character separator: 0-based, -1 when absent
Index(s, c) ==
    IF \E i \in 1..Len(s) : s[i] = c
    THEN (CHOOSE i \in 1..Len(s) : s[i] = c /\ \A j \in 1..(i - 1) : s[j] # c) - 1
    ELSE -1

\* strings.Contains for a one-character substring
Contains(s, c) == Index(s, c) # -1

\* strings.SplitN(s, sep, 2)
SplitN2(s, sep) ==
    IF Index(s, sep) = -1 THEN <<s>>
    ELSE <<SubSeq(s, 1, Index(s, sep)), SubSeq(s, Index(s, sep) + 2, Len(s))>>

----------------------------------------------------------------------------
(* path expansion *)

RECURSIVE Components(_, _)
\* the "/"-separated elements of a path, in order (cur is the element being read)
Components(s, cur) ==
    IF s = <<>> THEN <<cur>>
    ELSE IF Head(s) = "/" THEN <<cur>> \o Components(Tail(s), <<>>)
    ELSE Components(Tail(s), Append(cur, Head(s)))

RECURSIVE CleanStack(_, _, _)
\* filepath.Clean's pass over the elements: drops "" and ".", resolves ".."
CleanStack(comps, stack, rooted) ==
    IF comps = <<>> THEN stack
    ELSE LET c == Head(comps) IN
        IF c = <<>> \/ c = <<".">> THEN CleanStack(Tail(comps), stack, rooted)
        ELSE IF c = <<".", ".">> THEN
            IF stack # <<>> /\ stack[Len(stack)] # <<".", ".">>
            THEN CleanStack(Tail(comps), SubSeq(stack, 1, Len(stack) - 1), rooted)
            ELSE IF rooted THEN CleanStack(Tail(comps), stack, rooted)
            ELSE CleanStack(Tail(comps), Append(stack, c), rooted)
        ELSE CleanStack(Tail(comps), Append(stack, c), rooted)

RECURSIVE JoinSlash(_)
JoinSlash(stack) ==
    IF stack = <<>> THEN <<>>
    ELSE IF Len(stack) = 1 THEN stack[1]
    ELSE stack[1] \o <<"/">> \o JoinSlash(Tail(stack))

\* filepath.Clean (Unix)
Clean(p) ==
    LET rooted == p # <<>> /\ Head(p) = "/"
        body == JoinSlash(CleanStack(Components(p, <<>>), <<>>, rooted))
        out == IF rooted THEN <<"/">> \o body ELSE body
    IN IF out = <<>> THEN <<".">> ELSE out

\* filepath.Join(a, b): empty elements are ignored, the result is cleaned
Join(a, b) ==
    IF a = <<>> /\ b = <<>> THEN <<>>
    ELSE IF a = <<>> THEN Clean(b)
    ELSE IF b = <<>> THEN Clean(a)
    ELSE Clean(a \o <<"/">> \o b)

\* os.UserHomeDir fails when $HOME is empty
UserHomeDirOk(h) == h # <<>>

\* mutant: the home directory and the remainder are concatenated as they are
expandPath_Concat(path, h) ==
    IF HasPrefix(path, <<"~", "/">>)
    THEN IF ~UserHomeDirOk(h) THEN path
         ELSE h \o <<"/">> \o SubSeq(path, 3, Len(path))
    ELSE path

expandPath(path, h) ==
    IF HasPrefix(path, <<"~", "/">>)
    THEN IF ~UserHomeDirOk(h) THEN path
         ELSE Join(h, SubSeq(path, 3, Len(path)))
    ELSE path

----------------------------------------------------------------------------
(* SSHHost and Display *)

NameWidth == 20
UserWidth == 10
HostWidth == 20

DefaultPort == <<"2", "2">>

\* &SSHHost{Name: hostName, Port: "22", Comment: lastComment}
NewHost(name, comment) ==
    [Name |-> name, HostName |-> <<>>, Port |-> DefaultPort, User |-> <<>>,
     Comment |-> comment, IdentityFile |-> <<>>]

\* fmt.Sprintf("%-Ns", s): left-justified, padded with spaces to width n
PadRight(s, n) == IF Len(s) >= n THEN s ELSE s \o [i \in 1..(n - Len(s)) |-> " "]

\* mutant: the port annotation is dropped for the default port only
DisplayParts_EmptyPortShown(h) ==
    (IF h.User # <<>>
        THEN <<[tag |-> "user", str |-> <<" ", "u", "s", "e", "r", "=">> \o PadRight(h.User, UserWidth)]>>
        ELSE <<>>)
    \o (IF h.HostName # <<>>
        THEN <<[tag |-> "host", str |-> <<" ", "h", "o", "s", "t", "=">> \o PadRight(h.HostName, HostWidth)]>>
        ELSE <<>>)
    \o (IF h.Port # DefaultPort
        THEN <<[tag |-> "port", str |-> <<" ", "p", "o", "r", "t", "=">> \o h.Port]>>
        ELSE <<>>)
    \o (IF h.Comment # <<>>
        THEN <<[tag |-> "comment", str |-> <<" ", "(">> \o h.Comment \o <<")">>]>>
        ELSE <<>>)

\* the annotations Display appends after the name, in order, each tagged
DisplayParts(h) ==
    (IF h.User # <<>>
        THEN <<[tag |-> "user", str |-> <<" ", "u", "s", "e", "r", "=">> \o PadRight(h.User, UserWidth)]>>
        ELSE <<>>)
    \o (IF h.HostName # <<>>
        THEN <<[tag |-> "host", str |-> <<" ", "h", "o", "s", "t", "=">> \o PadRight(h.HostName, HostWidth)]>>
        ELSE <<>>)
    \o (IF h.Port # <<>> /\ h.Port # DefaultPort
        THEN <<[tag |-> "port", str |-> <<" ", "p", "o", "r", "t", "=">> \o h.Port]>>
        ELSE <<>>)
    \o (IF h.Comment # <<>>
        THEN <<[tag |-> "comment", str |-> <<" ", "(">> \o h.Comment \o <<")">>]>>
        ELSE <<>>)

RECURSIVE ConcatParts(_)
ConcatParts(parts) ==
    IF parts = <<>> THEN <<>> ELSE Head(parts).str \o ConcatParts(Tail(parts))

\* SSHHost.Display
Display(h) == PadRight(h.Name, NameWidth) \o ConcatParts(DisplayParts(h))

----------------------------------------------------------------------------
(* parseSSHConfig *)

\* a line of bufio.MaxScanTokenSize (64 KiB) bytes or more, which the scanner
\* cannot return: Scan stops there and Err reports bufio.ErrTooLong
LongLine == <<"<line of 65536 bytes or more>">>

\* hostRe.FindStringSubmatch for (?i)^Host\s+(.+)$ : <<>> is nil (no match),
\* <<p>> is a match whose group 1 is p.  \s+ is greedy, (.+) takes what is left
\* and needs at least one character.
hostReSubmatch(line) ==
    LET rest == SubSeq(line, 5, Len(line)) IN
    IF Len(line) >= 6 /\ ToLower(SubSeq(line, 1, 4)) = <<"h", "o", "s", "t">>
       /\ rest[1] \in Space
    THEN IF TrimLeft(rest) # <<>> THEN <<TrimLeft(rest)>> ELSE <<<<rest[Len(rest)]>>>>
    ELSE <<>>

\* strings.Contains(hostName, "*")
IsExcludedPattern(hostName) == Contains(hostName, "*")

\* the key/value split of an attribute line: <<>> when the line is skipped
\* (no separator), else <<[key, value]>>
ParseAttr(line) ==
    IF Index(line, "=") # -1
    THEN <<[key |-> ToLower(TrimSpace(SubSeq(line, 1, Index(line, "=")))),
            value |-> TrimSpace(SubSeq(line, Index(line, "=") + 2, Len(line)))]>>
    ELSE LET bySpace == SplitN2(line, " ")
             parts == IF Len(bySpace) < 2 THEN SplitN2(line, "\t") ELSE bySpace
         IN IF Len(parts) < 2 THEN <<>>
            ELSE <<[key |-> ToLower(TrimSpace(parts[1])), value |-> TrimSpace(parts[2])]>>

\* switch key { case "hostname": ... }
SetField(h, key, value, hm) ==
    CASE key = <<"h", "o", "s", "t", "n", "a", "m", "e">> -> [h EXCEPT !.HostName = value]
      [] key = <<"p", "o", "r", "t">> -> [h EXCEPT !.Port = value]
      [] key = <<"u", "s", "e", "r">> -> [h EXCEPT !.User = value]
      [] key = <<"i", "d", "e", "n", "t", "i", "t", "y", "f", "i", "l", "e">> ->
            [h EXCEPT !.IdentityFile = expandPath(value, hm)]
      [] OTHER -> h

\* an attribute line applied to the open record
ApplyAttr(h, line, hm) ==
    IF ParseAttr(line) = <<>> THEN h
    ELSE SetField(h, ParseAttr(line)[1].key, ParseAttr(line)[1].value, hm)

\* if current != nil { hosts = append(hosts, *current) }
Flush(hs, cur) == IF cur # <<>> THEN Append(hs, cur[1]) ELSE hs

\* the line the loop body works on
ScannedLine == TrimSpace(text[pos + 1])

Scanning == ppc = "scan" /\ pos < Len(text) /\ text[pos + 1] # LongLine

ParseOpen ==
    /\ ppc = "open" /\ readable
    /\ ppc' = "scan"
    /\ UNCHANGED <<home, readable, text, pos, hosts, current, lastComment, perr>>
    /\ UNCHANGED nonParseVars

\* mutant: a failed open is not reported
ParseOpenFail_NoError ==
    /\ ppc = "open" /\ ~readable
    /\ ppc' = "done" /\ hosts' = <<>> /\ perr' = "nil"
    /\ UNCHANGED <<home, readable, text, pos, current, lastComment>>
    /\ UNCHANGED nonParseVars

ParseOpenFail ==
    /\ ppc = "open" /\ ~readable
    /\ ppc' = "done" /\ hosts' = <<>> /\ perr' = "ENOENT"
    /\ UNCHANGED <<home, readable, text, pos, current, lastComment>>
    /\ UNCHANGED nonParseVars

ScanComment ==
    /\ Scanning /\ HasPrefix(ScannedLine, <<"#">>)
    /\ lastComment' = TrimSpace(TrimPrefix(ScannedLine, <<"#">>))
    /\ pos' = pos + 1
    /\ UNCHANGED <<home, readable, text, ppc, hosts, current, perr>>
    /\ UNCHANGED nonParseVars

ScanBlank ==
    /\ Scanning /\ ScannedLine = <<>>
    /\ pos' = pos + 1
    /\ UNCHANGED <<home, readable, text, ppc, hosts, current, lastComment, perr>>
    /\ UNCHANGED nonParseVars

\* mutant: the pending comment survives the record that takes it
ScanHost_KeepsPending ==
    /\ Scanning /\ ~HasPrefix(ScannedLine, <<"#">>) /\ ScannedLine # <<>>
    /\ hostReSubmatch(ScannedLine) # <<>>
    /\ LET hostName == hostReSubmatch(ScannedLine)[1] IN
        /\ hosts' = Flush(hosts, current)
        /\ IF IsExcludedPattern(hostName)
           THEN current' = <<>>
           ELSE current' = <<NewHost(hostName, lastComment)>>
    /\ pos' = pos + 1
    /\ UNCHANGED <<home, readable, text, ppc, perr, lastComment>>
    /\ UNCHANGED nonParseVars

ScanHost ==
    /\ Scanning /\ ~HasPrefix(ScannedLine, <<"#">>) /\ ScannedLine # <<>>
    /\ hostReSubmatch(ScannedLine) # <<>>
    /\ LET hostName == hostReSubmatch(ScannedLine)[1] IN
        /\ hosts' = Flush(hosts, current)
        /\ IF IsExcludedPattern(hostName)
           THEN current' = <<>> /\ UNCHANGED lastComment
           ELSE current' = <<NewHost(hostName, lastComment)>> /\ lastComment' = <<>>
    /\ pos' = pos + 1
    /\ UNCHANGED <<home, readable, text, ppc, perr>>
    /\ UNCHANGED nonParseVars

\* mutant: an attribute line met while no record is open lands on the record
\* finalized last
ScanNoCurrent_AppliesToLast ==
    /\ Scanning /\ ~HasPrefix(ScannedLine, <<"#">>) /\ ScannedLine # <<>>
    /\ hostReSubmatch(ScannedLine) = <<>>
    /\ current = <<>>
    /\ hosts' = IF hosts = <<>> THEN hosts
                ELSE [hosts EXCEPT ![Len(hosts)] = ApplyAttr(@, ScannedLine, home)]
    /\ pos' = pos + 1
    /\ UNCHANGED <<home, readable, text, ppc, current, lastComment, perr>>
    /\ UNCHANGED nonParseVars

ScanNoCurrent ==
    /\ Scanning /\ ~HasPrefix(ScannedLine, <<"#">>) /\ ScannedLine # <<>>
    /\ hostReSubmatch(ScannedLine) = <<>>
    /\ current = <<>>
    /\ pos' = pos + 1
    /\ UNCHANGED <<home, readable, text, ppc, hosts, current, lastComment, perr>>
    /\ UNCHANGED nonParseVars

ScanAttr ==
    /\ Scanning /\ ~HasPrefix(ScannedLine, <<"#">>) /\ ScannedLine # <<>>
    /\ hostReSubmatch(ScannedLine) = <<>>
    /\ current # <<>>
    /\ current' = <<ApplyAttr(current[1], ScannedLine, home)>>
    /\ pos' = pos + 1
    /\ UNCHANGED <<home, readable, text, ppc, hosts, lastComment, perr>>
    /\ UNCHANGED nonParseVars

\* scanner.Scan() returns false at a line too long for its buffer
ScanTooLong ==
    /\ ppc = "scan" /\ pos < Len(text) /\ text[pos + 1] = LongLine
    /\ hosts' = Flush(hosts, current)
    /\ perr' = "ErrTooLong"
    /\ ppc' = "done"
    /\ UNCHANGED <<home, readable, text, pos, current, lastComment>>
    /\ UNCHANGED nonParseVars

\* scanner.Scan() returns false at end of input
ScanEOF ==
    /\ ppc = "scan" /\ pos = Len(text)
    /\ hosts' = Flush(hosts, current)
    /\ perr' = "nil"
    /\ ppc' = "done"
    /\ UNCHANGED <<home, readable, text, pos, current, lastComment>>
    /\ UNCHANGED nonParseVars

----------------------------------------------------------------------------
(* configuration texts *)

MaxLines == 3

Lines == {
    <<" ">>,
    <<"#", " ", "c">>,
    <<"#", "d", " ">>,
    <<"H", "o", "s", "t", " ", "a">>,
    <<"h", "o", "s", "t", "\t", "b">>,
    <<"H", "o", "s", "t", " ", "*">>,
    <<"H", "o", "s", "t", " ", "c", "?">>,
    <<" ", "P", "o", "r", "t", " ", "2">>,
    <<"P", "o", "r", "t", "=">>,
    <<"U", "s", "e", "r", "=", "u">>,
    <<"H", "o", "s", "t", "N", "a", "m", "e", "\t", "n">>,
    <<"I", "d", "e", "n", "t", "i", "t", "y", "F", "i", "l", "e", " ", "~", "/", "k">>,
    <<"X", " ", "y">>,
    <<"P", "o", "r", "t">>,
    <<"U", "s", "e", "r", " ", "a", "=", "b">>,
    LongLine }

Texts == UNION {[1..n -> Lines] : n \in 0..MaxLines}

HomeDir == <<"/", "h">>

Syntaxes == {"equals", "space", "tab"}

\* the variables of the attribute-line runs, at rest
AttrIdle == akey = <<>> /\ avalue = <<>> /\ arecs = [sx \in Syntaxes |-> <<>>]

\* the variables of the session, at rest
SessIdle ==
    /\ termMode = "cooked" /\ oldState = <<>> /\ defers = <<>> /\ restores = 0
    /\ clientOpen = FALSE /\ sessionOpen = FALSE /\ subscribed = FALSE /\ sigChan = 0
    /\ gpc = "none" /\ termSize = [w |-> 0, h |-> 0] /\ ptyReq = <<>>
    /\ winChanges = <<>> /\ resizes = 0 /\ cres = "none" /\ priorMode = "cooked"
    /\ csize = [w |-> 0, h |-> 0] /\ gsize = [w |-> 0, h |-> 0]

\* the variables of connectSSH, at rest
ConnIdle ==
    /\ fs = <<>> /\ agentState = "unset" /\ chost = NewHost(<<>>, <<>>) /\ cpc = "idle"
    /\ keyIdx = 0 /\ authMethods = <<>> /\ tryIdx = 0
    /\ SessIdle

ParseInit ==
    /\ MoreIdle
    /\ AttrIdle
    /\ ConnIdle
    /\ home = HomeDir
    /\ readable \in BOOLEAN
    /\ text \in (IF readable THEN Texts ELSE {<<>>})
    /\ pos = 0
    /\ ppc = "open"
    /\ hosts = <<>>
    /\ current = <<>>
    /\ lastComment = <<>>
    /\ perr = "nil"

ParseNext ==
    \/ ParseOpen
    \/ ParseOpenFail
    \/ ScanComment
    \/ ScanBlank
    \/ ScanHost
    \/ ScanNoCurrent
    \/ ScanAttr
    \/ ScanTooLong
    \/ ScanEOF

SpecParse == ParseInit /\ [][ParseNext]_vars

----------------------------------------------------------------------------
(* the configuration text as the claims read it *)

RECURSIVE TakeWord(_)
\* the characters of s before its first space or tab
TakeWord(s) ==
    IF s = <<>> \/ Head(s) \in Space THEN <<>> ELSE <<Head(s)>> \o TakeWord(Tail(s))

\* what follows the first word of a line
AfterWord(l) ==
    LET t == TrimSpace(l) IN TrimLeft(SubSeq(t, Len(TakeWord(t)) + 1, Len(t)))

\* a `Host <pattern>` declaration, keyword in any case
IsHostDecl(l) ==
    /\ l # LongLine
    /\ ToLower(TakeWord(TrimSpace(l))) = <<"h", "o", "s", "t">>
    /\ AfterWord(l) # <<>>

\* the wildcard characters of ssh_config patterns
GlobChars == {"*", "?"}

HasGlob(p) == \E i \in 1..Len(p) : p[i] \in GlobChars

IsWildcardHostDecl(l) == IsHostDecl(l) /\ HasGlob(AfterWord(l))

IsPlainHostDecl(l) == IsHostDecl(l) /\ ~HasGlob(AfterWord(l))

IsCommentLine(l) == l # LongLine /\ TrimSpace(l) # <<>> /\ Head(TrimSpace(l)) = "#"

\* the text of a comment line: what follows its `#`, trimmed
CommentText(l) == TrimSpace(Tail(TrimSpace(l)))

RECURSIVE PlainPatterns(_)
\* the patterns of the non-wildcard Host declarations of a text, in source order
PlainPatterns(t) ==
    IF t = <<>> THEN <<>>
    ELSE (IF IsPlainHostDecl(Head(t)) THEN <<AfterWord(Head(t))>> ELSE <<>>)
         \o PlainPatterns(Tail(t))

Names(hs) == [i \in 1..Len(hs) |-> hs[i].Name]

\* the records the parser holds: the finalized ones and, until the final
\* append, the open one
Records == IF ppc = "done" THEN hosts ELSE hosts \o current

Returned == ppc = "done" /\ readable

----------------------------------------------------------------------------
(* C1, C2: wildcard exclusion, one record per Host declaration *)

\* C1: no record of the parser's output has a Name containing a glob wildcard
\* character (`*` or `?`).
C1_NoWildcardName ==
    \A i \in 1..Len(hosts) : ~HasGlob(hosts[i].Name)

\* C2: parsing a readable text returns no error and exactly one record per
\* non-wildcard Host line, the i-th record named by the i-th such line.
C2_OneRecordPerPlainHost ==
    Returned => perr = "nil" /\ Names(hosts) = PlainPatterns(text)

----------------------------------------------------------------------------
(* C7, C8: comments *)

\* the line scanned last is a non-wildcard Host declaration
JustScannedPlainHost == pos >= 1 /\ ppc \in {"scan", "done"} /\ IsPlainHostDecl(text[pos])

\* C7: a non-wildcard Host line that follows a wildcard Host line with no `#`
\* line in between gets an empty comment (the wildcard line discarded the
\* pending comment).
C7_WildcardDiscardsComment ==
    (/\ JustScannedPlainHost
     /\ \E j \in 1..(pos - 1) :
            /\ IsWildcardHostDecl(text[j])
            /\ \A k \in (j + 1)..(pos - 1) : ~IsCommentLine(text[k]))
    => current # <<>> /\ current[1].Comment = <<>>

\* C8: the record opened by a non-wildcard Host line takes the text of the last
\* `#` line before it when no Host line lies between them (blank lines do not
\* matter, an earlier `#` line is overwritten); it takes no comment when there
\* is no `#` line before it, or when a non-wildcard Host line since the last
\* `#` line already took it; and the pending comment is cleared.
C8_CommentAttachment ==
    JustScannedPlainHost =>
        /\ current # <<>>
        /\ lastComment = <<>>
        /\ \A k \in 1..(pos - 1) :
            (/\ IsCommentLine(text[k])
             /\ \A j \in (k + 1)..(pos - 1) : ~IsCommentLine(text[j]) /\ ~IsHostDecl(text[j]))
            => current[1].Comment = CommentText(text[k])
        /\ (\A k \in 1..(pos - 1) : ~IsCommentLine(text[k])) => current[1].Comment = <<>>
        /\ (\E q \in 1..(pos - 1) :
                /\ IsPlainHostDecl(text[q])
                /\ \A j \in (q + 1)..(pos - 1) : ~IsCommentLine(text[j]))
            => current[1].Comment = <<>>

\* C8 witness: an overwritten comment, then the comment that is attached
C8_Witness ==
    /\ JustScannedPlainHost /\ pos = 3
    /\ IsCommentLine(text[1]) /\ IsCommentLine(text[2])
    /\ CommentText(text[1]) # CommentText(text[2])
    /\ current # <<>> /\ current[1].Comment = CommentText(text[2])

----------------------------------------------------------------------------
(* C10: the default port and its display *)

\* a `Port` attribute line in any of the syntaxes, keyword in any case
IsPortLine(l) ==
    LET t == ToLower(TrimSpace(l)) IN
    /\ l # LongLine
    /\ HasPrefix(t, <<"p", "o", "r", "t">>)
    /\ (Len(t) = 4 \/ t[5] \in Space \cup {"="})

\* the Host declarations among the first n lines that the parser keeps
RecordLines(n) ==
    {i \in 1..n : IsHostDecl(text[i]) /\ ~Contains(AfterWord(text[i]), "*")}

\* the line that declares the k-th record
RecordLine(k, n) ==
    CHOOSE i \in RecordLines(n) : Cardinality({j \in RecordLines(n) : j < i}) = k - 1

\* the last line of the block that the Host declaration of line i opens
BlockEnd(i, n) ==
    IF \E j \in (i + 1)..n : IsHostDecl(text[j])
    THEN (CHOOSE j \in (i + 1)..n :
            IsHostDecl(text[j]) /\ \A m \in (i + 1)..(j - 1) : ~IsHostDecl(text[m])) - 1
    ELSE n

\* strings.Contains as the tests use it on Display's result
ContainsSeq(s, sub) ==
    \E i \in 1..(Len(s) - Len(sub) + 1) : SubSeq(s, i, i + Len(sub) - 1) = sub

HasPortAnnotation(h) == \E i \in 1..Len(DisplayParts(h)) : DisplayParts(h)[i].tag = "port"

NoPortLineInBlock(k) ==
    \A j \in (RecordLine(k, pos) + 1)..BlockEnd(RecordLine(k, pos), pos) : ~IsPortLine(text[j])

\* C10 as stated: a record of a block with no Port line has port "22", and
\* Display omits the port annotation if and only if the port equals "22".
C10_PortOmittedIffDefault ==
    /\ Len(Records) = Cardinality(RecordLines(pos))
    /\ \A k \in 1..Len(Records) :
        /\ NoPortLineInBlock(k) => Records[k].Port = DefaultPort
        /\ ~HasPortAnnotation(Records[k]) <=> Records[k].Port = DefaultPort

\* C10 as amended: a record of a block with no Port line has port "22", and
\* Display omits the port annotation if and only if the port equals "22" or is
\* empty (a `Port=` line gives the record an empty port).
C10_PortOmittedIffDefaultOrEmpty ==
    /\ Len(Records) = Cardinality(RecordLines(pos))
    /\ \A k \in 1..Len(Records) :
        /\ NoPortLineInBlock(k) => Records[k].Port = DefaultPort
        /\ ~HasPortAnnotation(Records[k]) <=> Records[k].Port \in {DefaultPort, <<>>}
        /\ HasPortAnnotation(Records[k]) <=>
            ContainsSeq(Display(Records[k]), <<" ", "p", "o", "r", "t", "=">>)

\* C10 witness: a finished parse with a record of empty port and a record of a
\* block with no Port line, neither annotated
C10_Witness ==
    /\ Returned
    /\ \E b, c \in 1..Len(hosts) :
        /\ hosts[b].Port = <<>> /\ ~HasPortAnnotation(hosts[b])
        /\ hosts[c].Port = DefaultPort /\ NoPortLineInBlock(c)
        /\ ~HasPortAnnotation(hosts[c])

----------------------------------------------------------------------------
(* C11: names within one parse *)

\* C11: in the list a parse returns, every record has a non-empty Name and no
\* two records have the same Name.
C11_UniqueNonEmptyNames ==
    Returned =>
        \A i, j \in 1..Len(hosts) :
            /\ hosts[i].Name # <<>>
            /\ i # j => hosts[i].Name # hosts[j].Name

----------------------------------------------------------------------------
(* C12: finalized records are frozen *)

RECURSIVE ApplyBlock(_, _, _)
\* the attribute lines i..n of a block applied in order to the record h
ApplyBlock(h, i, n) ==
    IF i > n THEN h
    ELSE ApplyBlock(IF IsCommentLine(text[i]) \/ TrimSpace(text[i]) = <<>> THEN h
                    ELSE ApplyAttr(h, TrimSpace(text[i]), home),
                    i + 1, n)

\* the k-th record as its own block alone gives it: the name of its Host line,
\* the comment it was opened with, and the attribute lines up to the next Host
\* line (or up to the line scanned last)
BlockRecord(k) ==
    ApplyBlock(NewHost(AfterWord(text[RecordLine(k, pos)]), Records[k].Comment),
               RecordLine(k, pos) + 1, BlockEnd(RecordLine(k, pos), pos))

\* the line scanned by this step is not a Host declaration and no record is open
ScansWithNoRecordOpen ==
    /\ ppc = "scan" /\ current = <<>> /\ pos' = pos + 1
    /\ text[pos'] # LongLine /\ ~IsHostDecl(text[pos'])

\* C12: a record that has been appended to the list is never changed by a
\* later step (the list only grows at its end); a line scanned while no record
\* is open, such as an attribute line after a wildcard Host line, changes no
\* record; and every record is what the lines of its own block give it.
C12_FinalizedNeverMutated ==
    /\ [](Len(Records) = Cardinality(RecordLines(pos))
          /\ \A k \in 1..Len(Records) : Records[k] = BlockRecord(k))
    /\ [][/\ Len(hosts') >= Len(hosts)
          /\ \A i \in 1..Len(hosts) : hosts'[i] = hosts[i]
          /\ ScansWithNoRecordOpen => hosts' = hosts /\ current' = <<>>]_vars

\* C12 witness: a record finalized by a wildcard Host line, and after that line
\* a Port line that has been scanned and did not reach the record
C12_Witness ==
    /\ pos = 3 /\ ppc = "scan"
    /\ IsPlainHostDecl(text[1]) /\ Contains(AfterWord(text[2]), "*") /\ IsHostDecl(text[2])
    /\ IsPortLine(text[3]) /\ ParseAttr(TrimSpace(text[3])) # <<>>
    /\ ParseAttr(TrimSpace(text[3]))[1].value # DefaultPort
    /\ Len(hosts) = 1 /\ current = <<>> /\ hosts[1].Port = DefaultPort

----------------------------------------------------------------------------
(* C16: a file that cannot be opened *)

\* C16: parsing a path that cannot be opened ends with an error and a nil
\* list: no line is scanned and no record is opened or appended.
C16_OpenFailureReturnsNoList ==
    (ppc = "done" /\ ~readable) =>
        perr # "nil" /\ hosts = <<>> /\ current = <<>> /\ pos = 0

\* C16 witness: the parse of an unreadable path has returned
C16_Witness == ppc = "done" /\ ~readable /\ perr = "ENOENT" /\ hosts = <<>>

----------------------------------------------------------------------------
(* one attribute line in each separator syntax, under the same Host line *)

\* the variables of parseSSHConfig, at rest
ParseRest ==
    /\ readable = TRUE /\ text = <<>> /\ pos = 0 /\ ppc = "idle"
    /\ hosts = <<>> /\ current = <<>> /\ lastComment = <<>> /\ perr = "nil"

ParseIdle == home = HomeDir /\ ParseRest

AttrKeys == {
    <<"H", "o", "s", "t", "N", "a", "m", "e">>,
    <<"P", "o", "r", "t">>,
    <<"U", "s", "e", "r">>,
    <<"u", "s", "e", "r">>,
    <<"I", "d", "e", "n", "t", "i", "t", "y", "F", "i", "l", "e">> }

AttrValues == {
    <<"n">>,
    <<"2", "2", "2", "2">>,
    <<"a", "=", "b">>,
    <<"a", " ", "b">>,
    <<"~", "/", "k">>,
    <<"/", "p", "/", "~", "/", "q">> }

Separator(sx) == CASE sx = "equals" -> "=" [] sx = "space" -> " " [] sx = "tab" -> "\t"

\* the attribute line as written in the file, indented
AttrLine(key, value, sx) == <<" ", " ">> \o key \o <<Separator(sx)>> \o value

\* the record `Host h` opens
BlockHost == NewHost(<<"h">>, <<>>)

\* the field a recognized key names
FieldOf(h, key) ==
    CASE ToLower(key) = <<"h", "o", "s", "t", "n", "a", "m", "e">> -> h.HostName
      [] ToLower(key) = <<"p", "o", "r", "t">> -> h.Port
      [] ToLower(key) = <<"u", "s", "e", "r">> -> h.User
      [] OTHER -> h.IdentityFile

AttrInit ==
    /\ MoreIdle
    /\ ParseIdle
    /\ ConnIdle
    /\ akey \in AttrKeys
    /\ avalue \in AttrValues
    /\ arecs = [sx \in Syntaxes |-> <<>>]

\* one pass of the scan loop over the attribute line, the record of `Host h` open
AttrScan(sx) ==
    LET line == TrimSpace(AttrLine(akey, avalue, sx)) IN
    /\ arecs[sx] = <<>>
    /\ ~HasPrefix(line, <<"#">>) /\ line # <<>> /\ hostReSubmatch(line) = <<>>
    /\ arecs' = [arecs EXCEPT ![sx] = <<ApplyAttr(BlockHost, line, home)>>]
    /\ UNCHANGED <<akey, avalue>>
    /\ UNCHANGED nonAttrVars

AttrNext == \E sx \in Syntaxes : AttrScan(sx)

SpecAttr == AttrInit /\ [][AttrNext]_vars

\* C9: for every recognized key and every value, the `key=value`, `key value`
\* and key<tab>value lines give the record the same field value.
C9_SameFieldInEverySyntax ==
    \A s1, s2 \in Syntaxes :
        arecs[s1] # <<>> /\ arecs[s2] # <<>>
            => FieldOf(arecs[s1][1], akey) = FieldOf(arecs[s2][1], akey)

----------------------------------------------------------------------------
(* connectSSH: the authentication methods *)

SshDirName == <<".", "s", "s", "h">>

DefaultKeyNames == <<
    <<"i", "d", "_", "e", "d", "2", "5", "5", "1", "9">>,
    <<"i", "d", "_", "r", "s", "a">>,
    <<"i", "d", "_", "e", "c", "d", "s", "a">>,
    <<"i", "d", "_", "d", "s", "a">> >>

\* mutant: id_rsa is probed before id_ed25519
getDefaultKeyPaths_RsaFirst(h) ==
    IF ~UserHomeDirOk(h) THEN <<>>
    ELSE <<Join(Join(h, SshDirName), DefaultKeyNames[2]),
           Join(Join(h, SshDirName), DefaultKeyNames[1]),
           Join(Join(h, SshDirName), DefaultKeyNames[3]),
           Join(Join(h, SshDirName), DefaultKeyNames[4])>>

\* getDefaultKeyPaths: nil when the home directory cannot be resolved
getDefaultKeyPaths(h) ==
    IF ~UserHomeDirOk(h) THEN <<>>
    ELSE [i \in 1..Len(DefaultKeyNames) |-> Join(Join(h, SshDirName), DefaultKeyNames[i])]

\* The states of a key file:
\*   "missing"    os.Stat and os.ReadFile fail
\*   "unreadable" the file exists, os.ReadFile fails
\*   "plain"      ssh.ParsePrivateKey succeeds
\*   "garbage"    ssh.ParsePrivateKey fails, the error does not mention a passphrase
\*   "encOk"      a passphrase is needed; it is read and decrypts the key
\*   "encBad"     a passphrase is needed; reading it fails or it is wrong
KeyStates == {"missing", "unreadable", "plain", "garbage", "encOk", "encBad"}

\* os.Stat(path) returns no error
StatOk(path) == path \in DOMAIN fs /\ fs[path] # "missing"

\* getKeyAuth(keyPath) # nil
getKeyAuthOk(keyPath) ==
    IF keyPath \notin DOMAIN fs \/ fs[keyPath] \in {"missing", "unreadable"} THEN FALSE
    ELSE IF fs[keyPath] = "plain" THEN TRUE
    ELSE IF fs[keyPath] \in {"encOk", "encBad"} THEN fs[keyPath] = "encOk"
    ELSE FALSE

\* getSSHAgentAuth() # nil
getSSHAgentAuthOk == agentState # "unset" /\ agentState = "live"

Candidate(tag, path) == [tag |-> tag, path |-> path]

\* what getKeyAuth(keyPath) does before it returns: os.ReadFile, and for a key
\* that needs a passphrase the prompt of term.ReadPassword
KeyAcquisitions(tag, keyPath) ==
    <<[tag |-> tag, path |-> keyPath, kind |-> "read", at |-> cpc, past |-> 0]>>
    \o (IF fs[keyPath] \in {"encOk", "encBad"}
        THEN <<[tag |-> tag, path |-> keyPath, kind |-> "passphrase", at |-> cpc,
                past |-> 0]>>
        ELSE <<>>)

\* what getSSHAgentAuth() does before it returns: net.Dial("unix", socket) when
\* SSH_AUTH_SOCK is set
AgentAcquisitions ==
    IF agentState # "unset"
    THEN <<[tag |-> "Agent", path |-> <<>>, kind |-> "connect", at |-> cpc, past |-> 0]>>
    ELSE <<>>

\* 1. the configured IdentityFile
AuthIdentityFile ==
    /\ cpc = "identity"
    /\ authMethods' =
        IF chost.IdentityFile # <<>> /\ StatOk(chost.IdentityFile)
           /\ getKeyAuthOk(chost.IdentityFile)
        THEN Append(authMethods, Candidate("IdentityFile", chost.IdentityFile))
        ELSE authMethods
    /\ cpc' = "agent"
    /\ UNCHANGED <<chost, fs, agentState, tryIdx, keyIdx, sessVars>>
    /\ UNCHANGED <<parseVars, attrVars, mainVars, expVars>>
    /\ acqLog' = IF chost.IdentityFile # <<>> /\ StatOk(chost.IdentityFile)
               THEN acqLog \o KeyAcquisitions("IdentityFile", chost.IdentityFile)
               ELSE acqLog
    /\ UNCHANGED <<trail, sizeQuery, notes>>

\* mutant: the agent is consulted whether or not an IdentityFile is configured
AuthAgent_Always ==
    /\ cpc = "agent"
    /\ authMethods' =
        IF getSSHAgentAuthOk
        THEN Append(authMethods, Candidate("Agent", <<>>))
        ELSE authMethods
    /\ cpc' = "defaultkeys"
    /\ keyIdx' = 0
    /\ UNCHANGED <<chost, fs, agentState, tryIdx, sessVars>>
    /\ UNCHANGED <<parseVars, attrVars, mainVars, expVars>>
    /\ acqLog' = acqLog \o AgentAcquisitions
    /\ UNCHANGED <<trail, sizeQuery, notes>>

\* 2. the SSH agent, only when no IdentityFile is configured
AuthAgent ==
    /\ cpc = "agent"
    /\ authMethods' =
        IF chost.IdentityFile = <<>> /\ getSSHAgentAuthOk
        THEN Append(authMethods, Candidate("Agent", <<>>))
        ELSE authMethods
    /\ cpc' = "defaultkeys"
    /\ keyIdx' = 0
    /\ UNCHANGED <<chost, fs, agentState, tryIdx, sessVars>>
    /\ UNCHANGED <<parseVars, attrVars, mainVars, expVars>>
    /\ acqLog' = IF chost.IdentityFile = <<>> THEN acqLog \o AgentAcquisitions ELSE acqLog
    /\ UNCHANGED <<trail, sizeQuery, notes>>

\* mutant: the default keys are probed whether or not an IdentityFile is configured
AuthDefaultKey_Always ==
    /\ cpc = "defaultkeys"
    /\ keyIdx < Len(getDefaultKeyPaths(home))
    /\ LET keyPath == getDefaultKeyPaths(home)[keyIdx + 1] IN
        authMethods' =
            IF StatOk(keyPath) /\ getKeyAuthOk(keyPath)
            THEN Append(authMethods, Candidate("DefaultKey", keyPath))
            ELSE authMethods
    /\ keyIdx' = keyIdx + 1
    /\ UNCHANGED <<chost, cpc, fs, agentState, tryIdx, sessVars>>
    /\ UNCHANGED <<parseVars, attrVars, mainVars, expVars>>
    /\ acqLog' = LET keyPath == getDefaultKeyPaths(home)[keyIdx + 1] IN
                IF StatOk(keyPath) THEN acqLog \o KeyAcquisitions("DefaultKey", keyPath)
                ELSE acqLog
    /\ UNCHANGED <<trail, sizeQuery, notes>>

\* mutant: a default key file is not touched while the chain is built
AuthDefaultKey_Lazy ==
    /\ cpc = "defaultkeys"
    /\ chost.IdentityFile = <<>>
    /\ keyIdx < Len(getDefaultKeyPaths(home))
    /\ LET keyPath == getDefaultKeyPaths(home)[keyIdx + 1] IN
        authMethods' =
            IF StatOk(keyPath) /\ getKeyAuthOk(keyPath)
            THEN Append(authMethods, Candidate("DefaultKey", keyPath))
            ELSE authMethods
    /\ keyIdx' = keyIdx + 1
    /\ UNCHANGED <<chost, cpc, fs, agentState, tryIdx, sessVars>>
    /\ UNCHANGED <<parseVars, attrVars, mainVars, expVars>>
    /\ UNCHANGED acqLog
    /\ UNCHANGED <<trail, sizeQuery, notes>>

\* 3. one pass of the loop over the default key files
AuthDefaultKey ==
    /\ cpc = "defaultkeys"
    /\ chost.IdentityFile = <<>>
    /\ keyIdx < Len(getDefaultKeyPaths(home))
    /\ LET keyPath == getDefaultKeyPaths(home)[keyIdx + 1] IN
        authMethods' =
            IF StatOk(keyPath) /\ getKeyAuthOk(keyPath)
            THEN Append(authMethods, Candidate("DefaultKey", keyPath))
            ELSE authMethods
    /\ keyIdx' = keyIdx + 1
    /\ UNCHANGED <<chost, cpc, fs, agentState, tryIdx, sessVars>>
    /\ UNCHANGED <<parseVars, attrVars, mainVars, expVars>>
    /\ acqLog' = LET keyPath == getDefaultKeyPaths(home)[keyIdx + 1] IN
                IF StatOk(keyPath) THEN acqLog \o KeyAcquisitions("DefaultKey", keyPath)
                ELSE acqLog
    /\ UNCHANGED <<trail, sizeQuery, notes>>

\* 4. password: reached when the loop is over or was never entered
AuthPassword ==
    /\ cpc = "defaultkeys"
    /\ chost.IdentityFile # <<>> \/ keyIdx >= Len(getDefaultKeyPaths(home))
    /\ authMethods' = Append(authMethods, Candidate("Password", <<>>))
    /\ cpc' = "kbdint"
    /\ UNCHANGED <<chost, fs, agentState, tryIdx, keyIdx, sessVars>>
    /\ UNCHANGED <<parseVars, attrVars, mainVars, expVars>>
    /\ UNCHANGED acqLog
    /\ UNCHANGED <<trail, sizeQuery, notes>>

\* 5. keyboard-interactive; the chain is then handed to ssh.Dial
AuthKeyboardInteractive ==
    /\ cpc = "kbdint"
    /\ authMethods' = Append(authMethods, Candidate("KeyboardInteractive", <<>>))
    /\ cpc' = "dial"
    /\ UNCHANGED <<chost, fs, agentState, tryIdx, keyIdx, sessVars>>
    /\ UNCHANGED <<parseVars, attrVars, mainVars, expVars>>
    /\ UNCHANGED acqLog
    /\ UNCHANGED <<trail, sizeQuery, notes>>

\* an IdentityFile outside the credential directory
OtherKeyPath == <<"/", "k">>

KeyPaths == {getDefaultKeyPaths(HomeDir)[i] : i \in 1..Len(DefaultKeyNames)} \cup {OtherKeyPath}

AuthInit ==
    /\ MoreIdle
    /\ ParseRest
    /\ AttrIdle
    /\ SessIdle
    /\ home \in {HomeDir, <<>>}
    /\ \E idf \in {<<>>, OtherKeyPath, getDefaultKeyPaths(HomeDir)[2]} :
        /\ chost = [NewHost(<<"a">>, <<>>) EXCEPT !.IdentityFile = idf]
        /\ fs \in [KeyPaths -> KeyStates]
        /\ idf # OtherKeyPath => fs[OtherKeyPath] = "missing"
        /\ home = <<>> => \A i \in 1..Len(DefaultKeyNames) :
                            fs[getDefaultKeyPaths(HomeDir)[i]] = "plain"
    /\ agentState \in {"unset", "dead", "live"}
    /\ cpc = "identity"
    /\ keyIdx = 0
    /\ authMethods = <<>>
    /\ tryIdx = 0

AuthNext ==
    \/ AuthIdentityFile
    \/ AuthAgent
    \/ AuthDefaultKey
    \/ AuthPassword
    \/ AuthKeyboardInteractive

SpecAuth == AuthInit /\ [][AuthNext]_vars

----------------------------------------------------------------------------
(* C4, C5, C6: the authentication chain *)

ChainBuilt == cpc = "dial"

IdentityConfigured == chost.IdentityFile # <<>>

\* a key file exists and loads (with its passphrase, if it needs one)
KeyLoads(path) == path \in DOMAIN fs /\ fs[path] \in {"plain", "encOk"}

PasswordThenKbdInt ==
    <<Candidate("Password", <<>>), Candidate("KeyboardInteractive", <<>>)>>

Tags(chain) == {chain[i].tag : i \in 1..Len(chain)}

\* C4: with an IdentityFile configured the chain never holds an agent or a
\* default-key candidate, and once built it is [IdentityFile?, Password,
\* KeyboardInteractive], the IdentityFile candidate present exactly when the
\* file exists and loads.
C4_IdentityFileIsAuthoritative ==
    IdentityConfigured =>
        /\ Tags(authMethods) \cap {"Agent", "DefaultKey"} = {}
        /\ ChainBuilt =>
            authMethods =
                (IF KeyLoads(chost.IdentityFile)
                    THEN <<Candidate("IdentityFile", chost.IdentityFile)>> ELSE <<>>)
                \o PasswordThenKbdInt

\* C4 witness: the identity file loads while the agent is live and a default
\* key is usable, and the chain is built
C4_Witness ==
    /\ ChainBuilt /\ IdentityConfigured /\ KeyLoads(chost.IdentityFile)
    /\ agentState = "live" /\ home = HomeDir
    /\ \E p \in KeyPaths \ {chost.IdentityFile, OtherKeyPath} : KeyLoads(p)
    /\ Len(authMethods) = 3

\* the default key files of the credential directory, in priority order
DefaultKeyFiles == [i \in 1..Len(DefaultKeyNames) |-> Join(Join(HomeDir, SshDirName), DefaultKeyNames[i])]

RECURSIVE UsableDefaultKeys(_)
\* a default-key candidate for every default key file, from the i-th on, that
\* exists and parses
UsableDefaultKeys(i) ==
    IF i > Len(DefaultKeyFiles) THEN <<>>
    ELSE (IF KeyLoads(DefaultKeyFiles[i])
            THEN <<Candidate("DefaultKey", DefaultKeyFiles[i])>> ELSE <<>>)
         \o UsableDefaultKeys(i + 1)

\* the identity file is configured but cannot be read, and no agent is reachable
UnreadableIdentityNoAgent ==
    /\ IdentityConfigured
    /\ fs[chost.IdentityFile] \in {"missing", "unreadable"}
    /\ agentState # "live"

\* C5 as stated: with an unreadable identity file and no reachable agent the
\* chain still holds a default-key candidate for every default key that exists
\* and parses, then Password and KeyboardInteractive, and no agent candidate.
C5_DefaultKeysStillOffered ==
    ChainBuilt /\ UnreadableIdentityNoAgent /\ home = HomeDir =>
        authMethods = UsableDefaultKeys(1) \o PasswordThenKbdInt

\* C5 as amended: with an unreadable identity file and no reachable agent the
\* chain is exactly Password, KeyboardInteractive: no default-key candidate
\* (the configured IdentityFile suppresses them) and no agent candidate.
C5_OnlyPasswordAndKbdInt ==
    ChainBuilt /\ UnreadableIdentityNoAgent => authMethods = PasswordThenKbdInt

\* C5 witness: the case with a usable default key on disk
C5_Witness ==
    /\ ChainBuilt /\ UnreadableIdentityNoAgent /\ home = HomeDir
    /\ fs[chost.IdentityFile] = "unreadable" /\ agentState = "dead"
    /\ UsableDefaultKeys(1) # <<>>
    /\ authMethods = PasswordThenKbdInt

\* the place of a candidate in the fixed priority order
Rank(c) ==
    CASE c.tag = "IdentityFile" -> 1
      [] c.tag = "Agent" -> 2
      [] c.tag = "DefaultKey" ->
            2 + (CHOOSE i \in 1..Len(DefaultKeyFiles) : DefaultKeyFiles[i] = c.path)
      [] c.tag = "Password" -> 7
      [] c.tag = "KeyboardInteractive" -> 8

\* C6: the chain is a subsequence of IdentityFile, Agent, DefaultKey(id_ed25519),
\* DefaultKey(id_rsa), DefaultKey(id_ecdsa), DefaultKey(id_dsa), Password,
\* KeyboardInteractive; it is never empty and ends with Password,
\* KeyboardInteractive.
C6_FixedPriorityOrder ==
    ChainBuilt =>
        /\ Len(authMethods) >= 2
        /\ SubSeq(authMethods, Len(authMethods) - 1, Len(authMethods)) = PasswordThenKbdInt
        /\ \A i, j \in 1..Len(authMethods) : i < j => Rank(authMethods[i]) < Rank(authMethods[j])

\* C6 witness: the agent and all four default keys are in the chain
C6_Witness ==
    /\ ChainBuilt /\ Len(authMethods) = 7
    /\ authMethods[1].tag = "Agent" /\ authMethods[5].tag = "DefaultKey"

----------------------------------------------------------------------------
(* connectSSH: the session *)

DefaultWidth == 80
DefaultHeight == 24

\* capacity of make(chan os.Signal, 1)
SigChanCap == 1

MaxResizes == 2

Sizes == {[w |-> 100, h |-> 40], [w |-> 132, h |-> 50]}

\* the process runs: connectSSH has not returned to an exiting main, and no
\* signal has terminated the process
Alive == cpc \notin {"idle", "exited", "killed"}

Fail(msg) == cres' = msg /\ cpc' = "return"

\* ssh.Dial's handshake walks config.Auth in order; tryIdx methods are behind it
DialTrying == cpc = "dial" /\ tryIdx < Len(authMethods)

\* the callbacks of getPasswordAuth and getKeyboardInteractiveAuth prompt when
\* the handshake calls them; the other methods hold a signer built beforehand
Consult(c) ==
    IF c.tag \in {"Password", "KeyboardInteractive"}
    THEN Append(acqLog, [tag |-> c.tag, path |-> c.path, kind |-> "prompt",
                         at |-> cpc, past |-> tryIdx])
    ELSE acqLog

\* the remote does not offer the method of the next candidate: it is passed
\* over without being called
DialSkip ==
    /\ DialTrying
    /\ tryIdx' = tryIdx + 1
    /\ UNCHANGED <<chost, cpc, fs, agentState, keyIdx, authMethods, sessVars>>
    /\ UNCHANGED <<parseVars, attrVars, mainVars, expVars, logVars>>

\* the next candidate is called and the remote rejects it
DialReject ==
    /\ DialTrying
    /\ acqLog' = Consult(authMethods[tryIdx + 1])
    /\ tryIdx' = tryIdx + 1
    /\ UNCHANGED <<chost, cpc, fs, agentState, keyIdx, authMethods, sessVars>>
    /\ UNCHANGED <<parseVars, attrVars, mainVars, expVars, trail, sizeQuery, notes>>

\* the next candidate is called and the remote accepts it: ssh.Dial succeeds;
\* defer client.Close()
DialOk ==
    /\ DialTrying
    /\ acqLog' = Consult(authMethods[tryIdx + 1])
    /\ clientOpen' = TRUE
    /\ defers' = Append(defers, "client.Close")
    /\ cpc' = "newsession"
    /\ trail' = Append(trail, [step |-> "dial", ok |-> TRUE])
    /\ UNCHANGED <<termMode, oldState, restores, sessionOpen, subscribed, sigChan, gpc,
                   termSize, ptyReq, winChanges, resizes, cres, priorMode, csize, gsize>>
    /\ UNCHANGED <<chost, authVars, parseVars, attrVars, mainVars, expVars>>
    /\ UNCHANGED <<sizeQuery, notes>>

\* ssh.Dial fails: the connection cannot be made or breaks, or no candidate is
\* left to try
DialFail ==
    /\ cpc = "dial"
    /\ Fail("failed to connect")
    /\ trail' = Append(trail, [step |-> "dial", ok |-> FALSE])
    /\ UNCHANGED <<termMode, oldState, defers, restores, clientOpen, sessionOpen, subscribed,
                   sigChan, gpc, termSize, ptyReq, winChanges, resizes, priorMode, csize, gsize>>
    /\ UNCHANGED <<chost, authVars, parseVars, attrVars, mainVars, expVars>>
    /\ UNCHANGED <<sizeQuery, acqLog, notes>>

\* client.NewSession succeeds; defer session.Close()
NewSessionOk ==
    /\ cpc = "newsession"
    /\ sessionOpen' = TRUE
    /\ defers' = Append(defers, "session.Close")
    /\ cpc' = "makeraw"
    /\ UNCHANGED <<termMode, oldState, restores, clientOpen, subscribed, sigChan, gpc,
                   termSize, ptyReq, winChanges, resizes, cres, priorMode, csize, gsize>>
    /\ UNCHANGED <<chost, authVars, parseVars, attrVars, mainVars, expVars>>
    /\ trail' = Append(trail, [step |-> "session", ok |-> TRUE])
    /\ UNCHANGED <<sizeQuery, acqLog, notes>>

NewSessionFail ==
    /\ cpc = "newsession"
    /\ Fail("failed to create session")
    /\ UNCHANGED <<termMode, oldState, defers, restores, clientOpen, sessionOpen, subscribed,
                   sigChan, gpc, termSize, ptyReq, winChanges, resizes, priorMode, csize, gsize>>
    /\ UNCHANGED <<chost, authVars, parseVars, attrVars, mainVars, expVars>>
    /\ trail' = Append(trail, [step |-> "session", ok |-> FALSE])
    /\ UNCHANGED <<sizeQuery, acqLog, notes>>

\* term.MakeRaw succeeds; defer term.Restore(fd, oldState)
MakeRawOk ==
    /\ cpc = "makeraw"
    /\ oldState' = <<termMode>>
    /\ termMode' = "raw"
    /\ defers' = Append(defers, "term.Restore")
    /\ cpc' = "getsize"
    /\ UNCHANGED <<restores, clientOpen, sessionOpen, subscribed, sigChan, gpc, termSize,
                   ptyReq, winChanges, resizes, cres, priorMode, csize, gsize>>
    /\ UNCHANGED <<chost, authVars, parseVars, attrVars, mainVars, expVars>>
    /\ trail' = Append(trail, [step |-> "raw", ok |-> TRUE])
    /\ UNCHANGED <<sizeQuery, acqLog, notes>>

\* mutant: a failed term.MakeRaw does not end the call
MakeRawFail_GoesOn ==
    /\ cpc = "makeraw"
    /\ cres' = cres /\ cpc' = "getsize"
    /\ UNCHANGED <<termMode, oldState, defers, restores, clientOpen, sessionOpen, subscribed,
                   sigChan, gpc, termSize, ptyReq, winChanges, resizes, priorMode, csize, gsize>>
    /\ UNCHANGED <<chost, authVars, parseVars, attrVars, mainVars, expVars>>
    /\ trail' = Append(trail, [step |-> "raw", ok |-> FALSE])
    /\ UNCHANGED <<sizeQuery, acqLog, notes>>

MakeRawFail ==
    /\ cpc = "makeraw"
    /\ Fail("failed to set raw terminal")
    /\ UNCHANGED <<termMode, oldState, defers, restores, clientOpen, sessionOpen, subscribed,
                   sigChan, gpc, termSize, ptyReq, winChanges, resizes, priorMode, csize, gsize>>
    /\ UNCHANGED <<chost, authVars, parseVars, attrVars, mainVars, expVars>>
    /\ trail' = Append(trail, [step |-> "raw", ok |-> FALSE])
    /\ UNCHANGED <<sizeQuery, acqLog, notes>>

\* width, height, err := term.GetSize(fd), with the 80x24 fallback
GetSize ==
    /\ cpc = "getsize"
    /\ \E ok \in BOOLEAN :
        /\ csize' = IF ok THEN termSize ELSE [w |-> DefaultWidth, h |-> DefaultHeight]
        /\ sizeQuery' = <<[ok |-> ok, w |-> termSize.w, h |-> termSize.h]>>
    /\ cpc' = "requestpty"
    /\ UNCHANGED <<termMode, oldState, defers, restores, clientOpen, sessionOpen, subscribed,
                   sigChan, gpc, termSize, ptyReq, winChanges, resizes, cres, priorMode, gsize>>
    /\ UNCHANGED <<chost, authVars, parseVars, attrVars, mainVars, expVars>>
    /\ UNCHANGED <<trail, acqLog, notes>>

\* ssh.Session.RequestPty(term, h, w, modes): rows first, then columns
PtyRequest(h, w) == [w |-> w, h |-> h]

\* mutant: width and height handed over in the other order
PtySent_Swapped == PtyRequest(csize.w, csize.h)

\* session.RequestPty(termType, height, width, modes)
PtySent == PtyRequest(csize.h, csize.w)

RequestPtyOk ==
    /\ cpc = "requestpty"
    /\ ptyReq' = <<PtySent>>
    /\ cpc' = "notify"
    /\ UNCHANGED <<termMode, oldState, defers, restores, clientOpen, sessionOpen, subscribed,
                   sigChan, gpc, termSize, winChanges, resizes, cres, priorMode, csize, gsize>>
    /\ UNCHANGED <<chost, authVars, parseVars, attrVars, mainVars, expVars>>
    /\ trail' = Append(trail, [step |-> "pty", ok |-> TRUE])
    /\ UNCHANGED <<sizeQuery, acqLog, notes>>

RequestPtyFail ==
    /\ cpc = "requestpty"
    /\ ptyReq' = <<PtySent>>
    /\ Fail("failed to request PTY")
    /\ UNCHANGED <<termMode, oldState, defers, restores, clientOpen, sessionOpen, subscribed,
                   sigChan, gpc, termSize, winChanges, resizes, priorMode, csize, gsize>>
    /\ UNCHANGED <<chost, authVars, parseVars, attrVars, mainVars, expVars>>
    /\ trail' = Append(trail, [step |-> "pty", ok |-> FALSE])
    /\ UNCHANGED <<sizeQuery, acqLog, notes>>

\* sigwinch := make(chan os.Signal, 1); signal.Notify(sigwinch, syscall.SIGWINCH)
Notify ==
    /\ cpc = "notify"
    /\ subscribed' = TRUE
    /\ sigChan' = 0
    /\ cpc' = "go"
    /\ UNCHANGED <<termMode, oldState, defers, restores, clientOpen, sessionOpen, gpc,
                   termSize, ptyReq, winChanges, resizes, cres, priorMode, csize, gsize>>
    /\ UNCHANGED <<chost, authVars, parseVars, attrVars, mainVars, expVars>>
    /\ UNCHANGED <<trail, sizeQuery, acqLog, notes>>

\* go func() { for range sigwinch { ... } }()
StartResizer ==
    /\ cpc = "go"
    /\ gpc' = "recv"
    /\ cpc' = "deferstop"
    /\ UNCHANGED <<termMode, oldState, defers, restores, clientOpen, sessionOpen, subscribed,
                   sigChan, termSize, ptyReq, winChanges, resizes, cres, priorMode, csize, gsize>>
    /\ UNCHANGED <<chost, authVars, parseVars, attrVars, mainVars, expVars>>
    /\ UNCHANGED <<trail, sizeQuery, acqLog, notes>>

\* defer signal.Stop(sigwinch)
DeferStop ==
    /\ cpc = "deferstop"
    /\ defers' = Append(defers, "signal.Stop")
    /\ cpc' = "shell"
    /\ UNCHANGED <<termMode, oldState, restores, clientOpen, sessionOpen, subscribed, sigChan,
                   gpc, termSize, ptyReq, winChanges, resizes, cres, priorMode, csize, gsize>>
    /\ UNCHANGED <<chost, authVars, parseVars, attrVars, mainVars, expVars>>
    /\ UNCHANGED <<trail, sizeQuery, acqLog, notes>>

ShellOk ==
    /\ cpc = "shell"
    /\ cpc' = "wait"
    /\ UNCHANGED <<sessVars, chost, authVars, parseVars, attrVars, mainVars, expVars>>
    /\ trail' = Append(trail, [step |-> "shell", ok |-> TRUE])
    /\ UNCHANGED <<sizeQuery, acqLog, notes>>

ShellFail ==
    /\ cpc = "shell"
    /\ Fail("failed to start shell")
    /\ UNCHANGED <<termMode, oldState, defers, restores, clientOpen, sessionOpen, subscribed,
                   sigChan, gpc, termSize, ptyReq, winChanges, resizes, priorMode, csize, gsize>>
    /\ UNCHANGED <<chost, authVars, parseVars, attrVars, mainVars, expVars>>
    /\ trail' = Append(trail, [step |-> "shell", ok |-> FALSE])
    /\ UNCHANGED <<sizeQuery, acqLog, notes>>

\* return session.Wait(): the remote shell ends, with or without an error
Wait ==
    /\ cpc = "wait"
    /\ \E r \in {"nil", "exit error"} :
        /\ cres' = r
        /\ trail' = Append(trail, [step |-> "wait", ok |-> (r = "nil")])
    /\ cpc' = "return"
    /\ UNCHANGED <<termMode, oldState, defers, restores, clientOpen, sessionOpen, subscribed,
                   sigChan, gpc, termSize, ptyReq, winChanges, resizes, priorMode, csize, gsize>>
    /\ UNCHANGED <<chost, authVars, parseVars, attrVars, mainVars, expVars>>
    /\ UNCHANGED <<sizeQuery, acqLog, notes>>

\* on return the deferred calls run, last deferred first
RunDeferred ==
    /\ cpc = "return" /\ defers # <<>>
    /\ LET d == defers[Len(defers)] IN
        /\ defers' = SubSeq(defers, 1, Len(defers) - 1)
        /\ subscribed' = IF d = "signal.Stop" THEN FALSE ELSE subscribed
        /\ termMode' = IF d = "term.Restore" THEN oldState[1] ELSE termMode
        /\ restores' = IF d = "term.Restore" THEN restores + 1 ELSE restores
        /\ sessionOpen' = IF d \in {"session.Close", "client.Close"} THEN FALSE ELSE sessionOpen
        /\ clientOpen' = IF d = "client.Close" THEN FALSE ELSE clientOpen
    /\ UNCHANGED <<cpc, oldState, sigChan, gpc, termSize, ptyReq, winChanges, resizes, cres,
                   priorMode, csize, gsize>>
    /\ UNCHANGED <<chost, authVars, parseVars, attrVars, mainVars, expVars>>
    /\ UNCHANGED <<trail, sizeQuery, acqLog, notes>>

\* control is back in main
Return ==
    /\ cpc = "return" /\ defers = <<>>
    /\ cpc' = "returned"
    /\ UNCHANGED <<sessVars, chost, authVars, parseVars, attrVars, mainVars, expVars>>
    /\ UNCHANGED <<trail, sizeQuery, acqLog, notes>>

\* main ends (os.Exit(1) on an error, the end of main otherwise): the process
\* and its goroutine are gone
MainExit ==
    /\ cpc = "returned"
    /\ cpc' = "exited"
    /\ mpc' = "exited"
    /\ exitCode' = IF cres = "nil" THEN <<0>> ELSE <<1>>
    /\ gpc' = IF gpc = "none" THEN "none" ELSE "dead"
    /\ UNCHANGED <<termMode, oldState, defers, restores, clientOpen, sessionOpen, subscribed,
                   sigChan, termSize, ptyReq, winChanges, resizes, cres, priorMode, csize, gsize>>
    /\ UNCHANGED <<chost, authVars, parseVars, attrVars, expVars>>
    /\ UNCHANGED <<trail, sizeQuery, acqLog, notes>>
    /\ UNCHANGED <<uiCalls, uiResult, connCalls>>

\* the goroutine receives a notification from sigwinch
ResizerRecv ==
    /\ Alive /\ gpc = "recv" /\ sigChan > 0
    /\ sigChan' = sigChan - 1
    /\ gpc' = "size"
    /\ UNCHANGED <<termMode, oldState, defers, restores, clientOpen, sessionOpen, subscribed,
                   termSize, ptyReq, winChanges, resizes, cres, priorMode, csize, gsize>>
    /\ UNCHANGED <<chost, cpc, authVars, parseVars, attrVars, mainVars, expVars>>
    /\ UNCHANGED <<trail, sizeQuery, acqLog, notes>>

\* mutant: a window-change request goes out even when the size query failed
ResizerGetSize_ForwardsOnError ==
    /\ Alive /\ gpc = "size"
    /\ \E ok \in BOOLEAN :
        IF ok THEN gsize' = termSize /\ gpc' = "send" /\ UNCHANGED notes
        ELSE /\ gpc' = "send" /\ UNCHANGED gsize
             /\ notes' = [notes EXCEPT !.failed = @ + 1]
    /\ UNCHANGED <<termMode, oldState, defers, restores, clientOpen, sessionOpen, subscribed,
                   sigChan, termSize, ptyReq, winChanges, resizes, cres, priorMode, csize>>
    /\ UNCHANGED <<chost, cpc, authVars, parseVars, attrVars, mainVars, expVars>>
    /\ UNCHANGED <<trail, sizeQuery, acqLog>>

\* if w, h, err := term.GetSize(fd); err == nil { ... }
ResizerGetSize ==
    /\ Alive /\ gpc = "size"
    /\ \E ok \in BOOLEAN :
        IF ok THEN gsize' = termSize /\ gpc' = "send" /\ UNCHANGED notes
        ELSE /\ gpc' = "recv" /\ UNCHANGED gsize
             /\ notes' = [notes EXCEPT !.failed = @ + 1]
    /\ UNCHANGED <<termMode, oldState, defers, restores, clientOpen, sessionOpen, subscribed,
                   sigChan, termSize, ptyReq, winChanges, resizes, cres, priorMode, csize>>
    /\ UNCHANGED <<chost, cpc, authVars, parseVars, attrVars, mainVars, expVars>>
    /\ UNCHANGED <<trail, sizeQuery, acqLog>>

\* session.WindowChange(h, w): rows, then columns; the error is dropped
ResizerWindowChange ==
    /\ Alive /\ gpc = "send"
    /\ winChanges' = Append(winChanges, [w |-> gsize.w, h |-> gsize.h, open |-> sessionOpen])
    /\ gpc' = "recv"
    /\ UNCHANGED <<termMode, oldState, defers, restores, clientOpen, sessionOpen, subscribed,
                   sigChan, termSize, ptyReq, resizes, cres, priorMode, csize, gsize>>
    /\ UNCHANGED <<chost, cpc, authVars, parseVars, attrVars, mainVars, expVars>>
    /\ UNCHANGED <<trail, sizeQuery, acqLog, notes>>

\* the user resizes the terminal: SIGWINCH, delivered to sigwinch without
\* blocking when subscribed (dropped when the buffer is full)
Resize ==
    /\ Alive /\ resizes < MaxResizes
    /\ \E sz \in Sizes \ {termSize} : termSize' = sz
    /\ resizes' = resizes + 1
    /\ sigChan' = IF subscribed /\ sigChan < SigChanCap THEN sigChan + 1 ELSE sigChan
    /\ UNCHANGED <<termMode, oldState, defers, restores, clientOpen, sessionOpen, subscribed,
                   gpc, ptyReq, winChanges, cres, priorMode, csize, gsize>>
    /\ UNCHANGED <<chost, cpc, authVars, parseVars, attrVars, mainVars, expVars>>
    /\ notes' = IF ~subscribed THEN notes
              ELSE [notes EXCEPT !.raised = @ + 1,
                                 !.running = IF cpc = "wait" THEN @ + 1 ELSE @,
                                 !.merged = IF sigChan < SigChanCap THEN @ ELSE @ + 1]
    /\ UNCHANGED <<trail, sizeQuery, acqLog>>

\* SIGINT, SIGTERM or SIGHUP reaches the process: no handler is installed for
\* them, so the Go runtime ends the process at once; deferred calls do not run
Interrupt ==
    /\ Alive /\ cpc # "returned"
    /\ cpc' = "killed"
    /\ gpc' = IF gpc = "none" THEN "none" ELSE "dead"
    /\ UNCHANGED <<termMode, oldState, defers, restores, clientOpen, sessionOpen, subscribed,
                   sigChan, termSize, ptyReq, winChanges, resizes, cres, priorMode, csize, gsize>>
    /\ UNCHANGED <<chost, authVars, parseVars, attrVars, mainVars, expVars>>
    /\ UNCHANGED <<trail, sizeQuery, acqLog, notes>>

TermModes == {"cooked", "cbreak"}

SessInit ==
    /\ MoreIdle
    /\ ParseIdle
    /\ AttrIdle
    /\ fs = <<>> /\ agentState = "unset" /\ keyIdx = 0 /\ tryIdx = 0
    /\ chost = NewHost(<<"a">>, <<>>)
    /\ authMethods = <<[tag |-> "Password", path |-> <<>>],
                       [tag |-> "KeyboardInteractive", path |-> <<>>]>>
    /\ cpc = "dial"
    /\ priorMode \in TermModes
    /\ termMode = priorMode
    /\ termSize \in Sizes
    /\ oldState = <<>> /\ defers = <<>> /\ restores = 0
    /\ clientOpen = FALSE /\ sessionOpen = FALSE /\ subscribed = FALSE /\ sigChan = 0
    /\ gpc = "none" /\ ptyReq = <<>> /\ winChanges = <<>> /\ resizes = 0 /\ cres = "none"
    /\ csize = [w |-> 0, h |-> 0] /\ gsize = [w |-> 0, h |-> 0]

SessNext ==
    \/ DialSkip
    \/ DialReject
    \/ DialOk
    \/ DialFail
    \/ NewSessionOk
    \/ NewSessionFail
    \/ MakeRawOk
    \/ MakeRawFail
    \/ GetSize
    \/ RequestPtyOk
    \/ RequestPtyFail
    \/ Notify
    \/ StartResizer
    \/ DeferStop
    \/ ShellOk
    \/ ShellFail
    \/ Wait
    \/ RunDeferred
    \/ Return
    \/ MainExit
    \/ ResizerRecv
    \/ ResizerGetSize
    \/ ResizerWindowChange
    \/ Resize
    \/ Interrupt

SpecSession == SessInit /\ [][SessNext]_vars

\* the Go scheduler runs a goroutine that can run: the resize goroutine is not
\* starved while the process lives
SpecSessionFair ==
    /\ SpecSession
    /\ WF_vars(ResizerRecv)
    /\ WF_vars(ResizerGetSize)
    /\ WF_vars(ResizerWindowChange)

----------------------------------------------------------------------------
(* C3: the terminal mode *)

\* control has left connectSSH: it returned, or the process ended
Exited == cpc \in {"returned", "exited", "killed"}

RawEntered == oldState # <<>>

\* C3: on every exit path (normal completion, failure at any step, interrupt)
\* the terminal is back in the mode it had before the call, and the restore ran
\* exactly once if raw mode was entered and not at all otherwise.
C3_TerminalRestoredOnEveryExit ==
    Exited =>
        /\ termMode = priorMode
        /\ restores = (IF RawEntered THEN 1 ELSE 0)

\* the same on the paths where connectSSH returns
RestoredOnReturn ==
    cpc \in {"returned", "exited"} =>
        /\ termMode = priorMode
        /\ restores = (IF RawEntered THEN 1 ELSE 0)

----------------------------------------------------------------------------
(* C17: the size of the PTY request *)

\* C17: the PTY request sent to the remote has width 80 and height 24 when
\* connectSSH's terminal-size query failed, and the queried width as its width
\* and the queried height as its height when the query succeeded.
C17_PtySizeOrFallback ==
    ptyReq # <<>> =>
        /\ sizeQuery # <<>>
        /\ ptyReq[1] = IF sizeQuery[1].ok
                       THEN [w |-> sizeQuery[1].w, h |-> sizeQuery[1].h]
                       ELSE [w |-> 80, h |-> 24]

\* C17 witness: the query failed and the request went out with 80 x 24
C17_Witness ==
    /\ ptyReq = <<[w |-> 80, h |-> 24]>> /\ sizeQuery # <<>> /\ ~sizeQuery[1].ok
    /\ cpc = "notify"

----------------------------------------------------------------------------
(* C18: the order of the session's steps *)

\* the steps of a session, in the order Dialing, Authenticated (dial and session
\* creation), raw mode, PTYRequested, ShellRunning, Closed (the wait's end)
StepOrder == <<"dial", "session", "raw", "pty", "shell", "wait">>

\* the session is closed: connectSSH is returning or has returned
Closed == cpc \in {"return", "returned", "exited"}

\* a step has failed
StepFailed == trail # <<>> /\ ~trail[Len(trail)].ok

\* C18: the steps made so far are the first steps of dial, session creation,
\* raw mode, PTY request, shell start, wait, each made once and each after the
\* success of the one before (so a failed step is the last one made); the
\* terminal is raw only after dial and session creation succeeded, a PTY
\* request exists only after raw mode was acquired, the shell runs only after
\* the PTY request succeeded; a failed step closes the session with an error;
\* and a closed session has ended in a failed step or in the end of the wait,
\* after which no step is made.
C18_StepsInOrder ==
    /\ Len(trail) <= Len(StepOrder)
    /\ \A i \in 1..Len(trail) :
        /\ trail[i].step = StepOrder[i]
        /\ i < Len(trail) => trail[i].ok
    /\ termMode = "raw" => Len(trail) >= 3 /\ trail[1].ok /\ trail[2].ok /\ trail[3].ok
    /\ ptyReq # <<>> => Len(trail) >= 4 /\ trail[3].ok
    /\ cpc = "wait" => Len(trail) = 5 /\ trail[4].ok /\ trail[5].ok
    /\ StepFailed => cpc \in {"return", "returned", "exited", "killed"}
                     /\ cres \notin {"none", "nil"}
    /\ Closed => cres # "none" /\ (StepFailed \/ Len(trail) = Len(StepOrder))

\* C18 witness: the PTY request failed after raw mode was acquired; the call
\* has returned with the error and the shell was never started
C18_Witness ==
    /\ cpc = "returned" /\ Len(trail) = 4 /\ ~trail[4].ok /\ trail[4].step = "pty"
    /\ cres = "failed to request PTY" /\ ptyReq # <<>>

----------------------------------------------------------------------------
(* C13: the end of the resize subscription and of its goroutine *)

\* C13: once connectSSH has returned from a session whose resize subscription
\* was created, the subscription is cancelled and the resize goroutine is
\* stopped: it is neither running nor waiting for a notification.
C13_ResizerStoppedOnReturn ==
    (cpc = "returned" /\ gpc # "none") =>
        ~subscribed /\ gpc \notin {"recv", "size", "send"}

\* the half of C13 that holds: the subscription is cancelled on every return
SubscriptionCancelledOnReturn == cpc \in {"returned", "exited"} => ~subscribed

----------------------------------------------------------------------------
(* C19: what becomes of a resize notification *)

\* the resize goroutine waits for a notification and none is buffered
ResizerQuiet == gpc = "recv" /\ sigChan = 0

\* C19 as stated, on finite runs: with the session in ShellRunning and the
\* resize goroutine waiting on an empty channel, at least as many
\* window-change requests have been forwarded as notifications were raised
\* while the session was in ShellRunning.
C19_EveryNotificationForwarded ==
    (cpc = "wait" /\ ResizerQuiet) => Len(winChanges) >= notes.running

\* notifications the goroutine holds: buffered, or taken and not yet handled
Pending == sigChan + (IF gpc \in {"size", "send"} THEN 1 ELSE 0)

\* every notification raised is forwarded, merged into the buffered one,
\* dropped by a failed size query, or still pending
Accounted ==
    gpc # "dead" =>
        notes.raised = Len(winChanges) + notes.merged + notes.failed + Pending

\* C19 as amended: while the process runs every notification raised since the
\* subscription is accounted for as forwarded (one window-change request),
\* merged, failed or pending, each request carries a size the terminal had,
\* and once the goroutine runs a pending notification is in the end handled
\* unless the process ends first.
C19_ForwardedMergedOrFailed ==
    /\ [](Accounted /\ \A i \in 1..Len(winChanges) :
                        [w |-> winChanges[i].w, h |-> winChanges[i].h] \in Sizes)
    /\ (gpc \in {"recv", "size", "send"} /\ Pending > 0) ~> (Pending = 0 \/ ~Alive)

\* C19 witness: two notifications in quick succession in ShellRunning, the
\* second merged into the first, and the size query for it failed: nothing
\* was forwarded
C19_Witness ==
    /\ cpc = "wait" /\ ResizerQuiet
    /\ notes = [raised |-> 2, running |-> 2, merged |-> 1, failed |-> 1]
    /\ winChanges = <<>>

----------------------------------------------------------------------------
(* expandPath on its own *)

MaxPathLen == 3

PathChars == {"~", "/", "a", "."}

\* the values handed to expandPath
PathInputs == UNION {[1..n -> PathChars] : n \in 0..MaxPathLen}

ExpandInit ==
    /\ ParseRest
    /\ AttrIdle
    /\ ConnIdle
    /\ LogIdle
    /\ MainIdle
    /\ home \in {HomeDir, <<>>}
    /\ epath \in PathInputs
    /\ eres = <<>>

\* the call expandPath(epath)
ExpandCall ==
    /\ eres = <<>>
    /\ eres' = <<expandPath(epath, home)>>
    /\ UNCHANGED <<epath, parseVars, attrVars, connVars, logVars, mainVars>>

ExpandNext == ExpandCall

SpecExpand == ExpandInit /\ [][ExpandNext]_vars

\* the value begins with `~/`
IsTilde(path) == HasPrefix(path, <<"~", "/">>)

\* what follows the `~/` of a value
Remainder(path) == SubSeq(path, 3, Len(path))

\* a relative path that is already clean: not empty, and no element of it is
\* empty, `.` or `..`
IsCleanRel(rest) ==
    /\ rest # <<>>
    /\ \A i \in 1..Len(Components(rest, <<>>)) :
        Components(rest, <<>>)[i] \notin {<<>>, <<".">>, <<".", ".">>}

\* C15 as stated: with the home directory resolved, a value that begins with
\* `~/` becomes the home directory, a separator and the remainder as written;
\* every other value is returned unchanged.
C15_TildeRemainderVerbatim ==
    (eres # <<>> /\ UserHomeDirOk(home)) =>
        eres[1] = IF IsTilde(epath) THEN home \o <<"/">> \o Remainder(epath) ELSE epath

\* C15 as amended: with the home directory resolved, a value that begins with
\* `~/` becomes the cleaned join of the home directory and the remainder: the
\* remainder follows the home directory as written when it is a clean relative
\* path, and in every case the result is an absolute path with no empty, `.`
\* or `..` element; with the home directory unresolved, and for every other
\* value, the value is returned unchanged.
C15_TildeJoinedAndCleaned ==
    eres # <<>> =>
        IF IsTilde(epath) /\ UserHomeDirOk(home)
        THEN /\ IsCleanRel(Remainder(epath)) => eres[1] = home \o <<"/">> \o Remainder(epath)
             /\ eres[1] = Clean(home \o <<"/">> \o Remainder(epath))
             /\ Head(eres[1]) = "/"
             /\ eres[1] = <<"/">> \/ IsCleanRel(Tail(eres[1]))
        ELSE eres[1] = epath

\* C15 witness: a remainder that is not clean has been rewritten
C15_Witness ==
    /\ eres # <<>> /\ IsTilde(epath) /\ UserHomeDirOk(home)
    /\ ~IsCleanRel(Remainder(epath)) /\ Remainder(epath) # <<>>
    /\ eres[1] # home \o <<"/">> \o Remainder(epath)

----------------------------------------------------------------------------
(* main *)

\* os.Exit(code)
Exit(code) == exitCode' = <<code>> /\ mpc' = "exited"

\* configPath := getSSHConfigPath(); its "" ends the process, else
\* parseSSHConfig(configPath) is called
MainConfigPath ==
    /\ mpc = "start"
    /\ IF ~UserHomeDirOk(home)
       THEN Exit(1) /\ UNCHANGED ppc
       ELSE mpc' = "parse" /\ ppc' = "open" /\ UNCHANGED exitCode
    /\ UNCHANGED <<home, readable, text, pos, hosts, current, lastComment, perr>>
    /\ UNCHANGED <<attrVars, connVars, logVars, expVars, uiCalls, uiResult, connCalls>>

\* parseSSHConfig has returned: its error, or an empty list, ends the process
MainParsed ==
    /\ mpc = "parse" /\ ppc = "done"
    /\ IF perr # "nil" \/ Len(hosts) = 0
       THEN Exit(1)
       ELSE mpc' = "select" /\ UNCHANGED exitCode
    /\ UNCHANGED <<parseVars, attrVars, connVars, logVars, expVars>>
    /\ UNCHANGED <<uiCalls, uiResult, connCalls>>

\* what fuzzyfinder.Find can return for a list of n entries: an index with a
\* nil error, or an error: ErrAbort when the user leaves without a selection,
\* another error when the finder cannot run (no terminal to draw on)
FindResults(n) ==
    {[err |-> "nil", idx |-> i] : i \in 1..n}
    \cup {[err |-> e, idx |-> 0] : e \in {"ErrAbort", "failed to initialize"}}

\* idx, err := fuzzyfinder.Find(hosts, ...): any error ends the process with
\* status 0, else connectSSH(hosts[idx]) is called
MainSelect ==
    /\ mpc = "select"
    /\ uiCalls' = Append(uiCalls, Len(hosts))
    /\ \E r \in FindResults(Len(hosts)) :
        /\ uiResult' = r
        /\ IF r.err # "nil"
           THEN /\ Exit(0)
                /\ UNCHANGED <<chost, cpc, connCalls>>
           ELSE /\ chost' = hosts[r.idx]
                /\ cpc' = "identity"
                /\ connCalls' = connCalls + 1
                /\ mpc' = "connect"
                /\ UNCHANGED exitCode
    /\ UNCHANGED <<parseVars, attrVars, authVars, sessVars, logVars, expVars>>

\* the path IdentityFile ~/k expands to
ExpandedKeyPath == Join(HomeDir, <<"k">>)

\* the configuration files of the whole-program runs
MainTexts == {
    <<>>,
    << <<"#", " ", "c">>, <<" ">>, <<"H", "o", "s", "t", " ", "a">> >>,
    << <<"P", "o", "r", "t">>, <<"H", "o", "s", "t", " ", "a">>,
       <<"I", "d", "e", "n", "t", "i", "t", "y", "F", "i", "l", "e", " ", "~", "/", "k">> >>,
    << <<"H", "o", "s", "t", " ", "a">>, <<"h", "o", "s", "t", "\t", "b">> >>,
    << <<"H", "o", "s", "t", " ", "*">> >>,
    << LongLine >> }

MainInit ==
    /\ AttrIdle
    /\ LogIdle
    /\ ExpIdle
    /\ home \in {HomeDir, <<>>}
    /\ readable \in BOOLEAN
    /\ text \in (IF readable /\ UserHomeDirOk(home) THEN MainTexts ELSE {<<>>})
    /\ pos = 0 /\ ppc = "idle" /\ hosts = <<>> /\ current = <<>>
    /\ lastComment = <<>> /\ perr = "nil"
    /\ fs = [path \in KeyPaths \cup {ExpandedKeyPath} |->
                IF path \in {ExpandedKeyPath, getDefaultKeyPaths(HomeDir)[1]}
                THEN "plain" ELSE "missing"]
    /\ agentState = "unset"
    /\ chost = NewHost(<<>>, <<>>) /\ cpc = "idle"
    /\ keyIdx = 0 /\ authMethods = <<>> /\ tryIdx = 0
    /\ priorMode = "cooked" /\ termMode = priorMode
    /\ termSize = [w |-> 100, h |-> 40]
    /\ oldState = <<>> /\ defers = <<>> /\ restores = 0
    /\ clientOpen = FALSE /\ sessionOpen = FALSE /\ subscribed = FALSE /\ sigChan = 0
    /\ gpc = "none" /\ ptyReq = <<>> /\ winChanges = <<>> /\ resizes = 0 /\ cres = "none"
    /\ csize = [w |-> 0, h |-> 0] /\ gsize = [w |-> 0, h |-> 0]
    /\ mpc = "start" /\ exitCode = <<>> /\ uiCalls = <<>>
    /\ uiResult = [err |-> "none", idx |-> 0] /\ connCalls = 0

MainNext ==
    \/ MainConfigPath
    \/ MainParsed
    \/ MainSelect
    \/ ParseNext
    \/ AuthNext
    \/ SessNext

SpecMain == MainInit /\ [][MainNext]_vars

----------------------------------------------------------------------------
(* C14: the exit status *)

ProcessExited == mpc = "exited"

\* the user left the selection without choosing
SelectionCancelled == uiResult.err = "ErrAbort"

SessionSucceeded == cres = "nil"

SessionFailed == cres \notin {"none", "nil"}

HomeUnresolved == ~UserHomeDirOk(home)

ParseFailed == ppc = "done" /\ perr # "nil"

NoHostsFound == ppc = "done" /\ perr = "nil" /\ hosts = <<>>

\* C14: a process that has exited has status 0 exactly when the selection was
\* cancelled or the session ended with success, and status 1 exactly when the
\* home directory was not resolved, the configuration could not be read or
\* parsed, no host was found, or the session failed; after a cancellation and
\* with no host found connectSSH was never called; and the selection was
\* never run on an empty list.
C14_ExitCodes ==
    /\ ProcessExited =>
        /\ exitCode \in {<<0>>, <<1>>}
        /\ exitCode = <<0>> <=> (SelectionCancelled \/ SessionSucceeded)
        /\ exitCode = <<1>> <=>
            (HomeUnresolved \/ ParseFailed \/ NoHostsFound \/ SessionFailed)
    /\ (SelectionCancelled \/ NoHostsFound) => connCalls = 0 /\ cpc = "idle"
    /\ \A i \in 1..Len(uiCalls) : uiCalls[i] > 0

\* the same with every error of the selection counted as a cancellation: this
\* holds
ExitCodesIfFindErrorIsCancel ==
    /\ ProcessExited =>
        /\ exitCode \in {<<0>>, <<1>>}
        /\ exitCode = <<0>> <=> (uiResult.err \notin {"none", "nil"} \/ SessionSucceeded)
        /\ exitCode = <<1>> <=>
            (HomeUnresolved \/ ParseFailed \/ NoHostsFound \/ SessionFailed)
    /\ (uiResult.err \notin {"none", "nil"} \/ NoHostsFound) => connCalls = 0 /\ cpc = "idle"
    /\ \A i \in 1..Len(uiCalls) : uiCalls[i] > 0

----------------------------------------------------------------------------
(* connectSSH as a whole: the chain is built, then dialled *)

ConnectInit ==
    /\ ParseIdle
    /\ AttrIdle
    /\ MoreIdle
    /\ \E idf \in {<<>>, OtherKeyPath} :
        /\ chost = [NewHost(<<"a">>, <<>>) EXCEPT !.IdentityFile = idf]
        /\ \E other \in {"missing", "encOk"}, first \in {"plain", "encBad"} :
            /\ idf = <<>> => other = "missing"
            /\ idf # <<>> => first = "plain"
            /\ fs = [path \in KeyPaths |->
                        IF path = OtherKeyPath THEN other
                        ELSE IF path = getDefaultKeyPaths(HomeDir)[1] THEN first
                        ELSE "missing"]
        /\ agentState \in (IF idf = <<>> THEN {"unset", "live"} ELSE {"live"})
    /\ cpc = "identity" /\ keyIdx = 0 /\ authMethods = <<>> /\ tryIdx = 0
    /\ priorMode = "cooked" /\ termMode = priorMode
    /\ termSize = [w |-> 100, h |-> 40]
    /\ oldState = <<>> /\ defers = <<>> /\ restores = 0
    /\ clientOpen = FALSE /\ sessionOpen = FALSE /\ subscribed = FALSE /\ sigChan = 0
    /\ gpc = "none" /\ ptyReq = <<>> /\ winChanges = <<>> /\ resizes = 0 /\ cres = "none"
    /\ csize = [w |-> 0, h |-> 0] /\ gsize = [w |-> 0, h |-> 0]

ConnectNext == AuthNext \/ SessNext

SpecConnect == ConnectInit /\ [][ConnectNext]_vars

----------------------------------------------------------------------------
(* C20: when credentials are acquired *)

\* the acquisition was made by the handshake of ssh.Dial, for the candidate it
\* had come to (every candidate before it had been passed)
AtConsultation(e) ==
    /\ e.at = "dial"
    /\ e.past < Len(authMethods)
    /\ authMethods[e.past + 1] = Candidate(e.tag, e.path)

\* C20 as stated: every credential acquisition (key file read, passphrase
\* prompt, agent connection, password or challenge prompt) is made when the
\* handshake consults the candidate: not before the dial has started and not
\* before the candidates of higher priority were passed.
C20_AcquiredOnlyWhenConsulted ==
    \A i \in 1..Len(acqLog) : AtConsultation(acqLog[i])

EagerTags == {"IdentityFile", "Agent", "DefaultKey"}

\* the handshake of ssh.Dial has not called any candidate yet
BeforeFirstConsultation == cpc \in {"identity", "agent", "defaultkeys", "kbdint"}

\* C20 as amended: key files are read (and their passphrase asked for) and the
\* agent socket is connected while the chain is built, before ssh.Dial is
\* called, so that every key or agent candidate of a built chain has been
\* acquired already; only the password and keyboard-interactive prompts are
\* made when the handshake consults their candidate.
C20_KeysAndAgentEagerPromptsLazy ==
    /\ \A i \in 1..Len(acqLog) :
        IF acqLog[i].tag \in EagerTags
        THEN acqLog[i].at \in {"identity", "agent", "defaultkeys"}
        ELSE AtConsultation(acqLog[i])
    /\ BeforeFirstConsultation =>
        \A i \in 1..Len(acqLog) : acqLog[i].tag \in EagerTags
    /\ ~BeforeFirstConsultation =>
        \A k \in 1..Len(authMethods) :
            authMethods[k].tag \in EagerTags =>
                \E i \in 1..Len(acqLog) :
                    /\ acqLog[i].tag = authMethods[k].tag
                    /\ acqLog[i].path = authMethods[k].path
                    /\ acqLog[i].kind \in {"read", "connect"}
                    /\ acqLog[i].at # "dial"

\* C20 witness: the remote accepted the first candidate, the agent, and yet a
\* default key was read and its passphrase asked for before the dial
C20_Witness ==
    /\ clientOpen /\ tryIdx = 0 /\ authMethods[1].tag = "Agent"
    /\ \E i \in 1..Len(acqLog) :
        acqLog[i].tag = "DefaultKey" /\ acqLog[i].kind = "passphrase"
        /\ acqLog[i].at = "defaultkeys"

----------------------------------------------------------------------------
(* C21: window-change requests and the end of the session *)

\* connectSSH's deferred calls have all run: the subscription is cancelled,
\* the terminal restored, the session and the client closed
SessionClosedDown ==
    /\ cpc = "returned" /\ defers = <<>>
    /\ ~subscribed /\ ~sessionOpen /\ ~clientOpen

\* C21: once the session has been closed down (the deferred unsubscribe,
\* restore and closes have run) no step issues a window-change request on it,
\* whatever the resize goroutine was doing or had buffered at that time.
C21_NoWindowChangeAfterClose ==
    [][SessionClosedDown => winChanges' = winChanges]_vars

\* the same seen in the requests themselves: each was issued on an open session
EveryRequestOnOpenSession == \A i \in 1..Len(winChanges) : winChanges[i].open

----------------------------------------------------------------------------
(* C22: repeated keys and unrecognized keys *)

RECURSIVE TakeKey(_)
\* the characters of s before its first separator (space, tab or `=`)
TakeKey(s) ==
    IF s = <<>> \/ Head(s) \in Space \cup {"="} THEN <<>>
    ELSE <<Head(s)>> \o TakeKey(Tail(s))

\* the key of an attribute line, lowercased
AttrKey(l) == ToLower(TakeKey(TrimSpace(l)))

\* the value of an attribute line: what follows the key and its separator
\* (whitespace, or `=` with optional whitespace around it)
AttrValue(l) ==
    LET t == TrimSpace(l)
        r == TrimLeft(SubSeq(t, Len(TakeKey(t)) + 1, Len(t)))
    IN IF r # <<>> /\ Head(r) = "=" THEN TrimLeft(Tail(r)) ELSE r

\* a `key value`, `key=value` or key<tab>value line
IsAttrLine(l) ==
    /\ l # LongLine /\ ~IsCommentLine(l) /\ ~IsHostDecl(l)
    /\ AttrKey(l) # <<>>
    /\ Len(TakeKey(TrimSpace(l))) < Len(TrimSpace(l))

RecognizedKeys == {
    <<"h", "o", "s", "t", "n", "a", "m", "e">>,
    <<"p", "o", "r", "t">>,
    <<"u", "s", "e", "r">>,
    <<"i", "d", "e", "n", "t", "i", "t", "y", "f", "i", "l", "e">> }

\* the lines of the k-th record's block that give the key
Occurrences(k, key) ==
    {j \in (RecordLine(k, pos) + 1)..BlockEnd(RecordLine(k, pos), pos) :
        IsAttrLine(text[j]) /\ AttrKey(text[j]) = key}

LastOf(S) == CHOOSE j \in S : \A m \in S : m <= j

\* the value as the record keeps it: an IdentityFile value is tilde-expanded
Kept(key, value) ==
    IF key = <<"i", "d", "e", "n", "t", "i", "t", "y", "f", "i", "l", "e">>
    THEN expandPath(value, home) ELSE value

\* the record k has, for the key, the value of the key's last line in its
\* block, and the initial value when the block has no line for the key
LastWins(k, key) ==
    FieldOf(Records[k], key) =
        IF Occurrences(k, key) # {}
        THEN Kept(key, AttrValue(text[LastOf(Occurrences(k, key))]))
        ELSE FieldOf(NewHost(<<>>, <<>>), key)

\* C22: in every record a recognized key that occurs more than once in the
\* record's block has the value of its last occurrence, and a key that does
\* not occur (the block holding only lines with other or unrecognized keys)
\* keeps its initial value.
C22_LastOccurrenceWins ==
    /\ Len(Records) = Cardinality(RecordLines(pos))
    /\ \A k \in 1..Len(Records) : \A key \in RecognizedKeys :
        Cardinality(Occurrences(k, key)) # 1 => LastWins(k, key)

\* the parser splits the line into the key and value the line has
SplitAsWritten(l) ==
    /\ ParseAttr(TrimSpace(l)) # <<>>
    /\ ParseAttr(TrimSpace(l))[1].key = AttrKey(l)
    /\ ParseAttr(TrimSpace(l))[1].value = AttrValue(l)

\* the same for the blocks whose attribute lines the parser splits as written
\* (none is a `key value` line with `=` in its value): this holds
LastOccurrenceWinsWhereSplitAsWritten ==
    /\ Len(Records) = Cardinality(RecordLines(pos))
    /\ \A k \in 1..Len(Records) :
        (\A j \in (RecordLine(k, pos) + 1)..BlockEnd(RecordLine(k, pos), pos) :
            IsAttrLine(text[j]) => SplitAsWritten(text[j]))
        => \A key \in RecognizedKeys : LastWins(k, key)

====
